---- MODULE Spec2Model ----
(***************************************************************************)
(* The Snowflake identifier generator of                                   *)
(* examples/python/entity_driven_architecture.py (SnowflakeIdGenerator):   *)
(* __init__, generate_id, _current_timestamp, _wait_next_millis and parse. *)
(*                                                                         *)
(* Python integers are unbounded, and the timestamps and identifiers of    *)
(* the generator need up to 64 bits and more, so an integer is kept here   *)
(* as three limbs <<d2, d1, d0>> of 22 bits, standing for                  *)
(*     d2 * 2^44 + d1 * 2^22 + d0,   d1, d0 \in 0 .. 2^22 - 1,             *)
(* with a signed top limb (two's complement, as Python's shifts and        *)
(* bitwise operators see a negative integer).  Small quantities (node_id,  *)
(* sequence) are plain integers.                                           *)
(***************************************************************************)
EXTENDS Integers, Sequences, FiniteSets, TLC

Base == 2 ^ 22

\* ------------------------------------------------------------------------
\* Python integer arithmetic on three-limb integers
\* ------------------------------------------------------------------------

\* The three-limb form of a small integer n.
W(n) == << (n \div Base) \div Base, (n \div Base) % Base, n % Base >>

\* Carries propagated: the limbs a1, a0 brought back into 0 .. Base - 1.
Norm(a2, a1, a0) ==
    LET c0 == a0 \div Base
        s1 == a1 + c0
        c1 == s1 \div Base
    IN  << a2 + c1, s1 % Base, a0 % Base >>

\* x + y
IntAdd(x, y) == Norm(x[1] + y[1], x[2] + y[2], x[3] + y[3])

\* x - y
IntSub(x, y) == Norm(x[1] - y[1], x[2] - y[2], x[3] - y[3])

\* x < y
IntLess(x, y) ==
    \/ x[1] < y[1]
    \/ x[1] = y[1] /\ x[2] < y[2]
    \/ x[1] = y[1] /\ x[2] = y[2] /\ x[3] < y[3]

\* x <= y
IntLeq(x, y) == x = y \/ IntLess(x, y)

\* a | b on integers of either sign (two's complement, floor division).
RECURSIVE BitOr(_, _)
BitOr(a, b) ==
    IF a = 0 THEN b
    ELSE IF b = 0 THEN a
    ELSE IF a = -1 \/ b = -1 THEN -1
    ELSE 2 * BitOr(a \div 2, b \div 2) + (IF a % 2 = 1 \/ b % 2 = 1 THEN 1 ELSE 0)

\* a & b on integers of either sign.
RECURSIVE BitAnd(_, _)
BitAnd(a, b) ==
    IF a = 0 \/ b = 0 THEN 0
    ELSE IF a = -1 THEN b
    ELSE IF b = -1 THEN a
    ELSE 2 * BitAnd(a \div 2, b \div 2) + (IF a % 2 = 1 /\ b % 2 = 1 THEN 1 ELSE 0)

\* x | y
IntOr(x, y) == << BitOr(x[1], y[1]), BitOr(x[2], y[2]), BitOr(x[3], y[3]) >>

\* x & y
IntAnd(x, y) == << BitAnd(x[1], y[1]), BitAnd(x[2], y[2]), BitAnd(x[3], y[3]) >>

\* x << k, for 0 <= k <= 22
IntShl(x, k) ==
    LET lowBits == 2 ^ (22 - k)
        up      == 2 ^ k
    IN  << x[1] * up + (x[2] \div lowBits),
           (x[2] % lowBits) * up + (x[3] \div lowBits),
           (x[3] % lowBits) * up >>

\* x >> k (arithmetic, rounding down), for 0 <= k <= 22
IntShr(x, k) ==
    LET down == 2 ^ k
        up   == 2 ^ (22 - k)
    IN  << x[1] \div down,
           (x[1] % down) * up + (x[2] \div down),
           (x[2] % down) * up + (x[3] \div down) >>

\* ------------------------------------------------------------------------
\* Program constants
\* ------------------------------------------------------------------------

\* EPOCH = 1704067200000 = 406281 * 2^22 + 1176576
EPOCH == << 0, 406281, 1176576 >>

\* __init__: the greatest node id accepted
MAX_NODE_ID == 1023

\* __init__: last_timestamp of a new generator
NO_TIMESTAMP == -1

\* generate_id: "& 4095  # 12 bits mask"
SEQUENCE_MASK == 4095

\* generate_id: "<< 22" and "<< 12"
TIMESTAMP_SHIFT == 22
NODE_ID_SHIFT == 12

\* parse: ">> 22", ">> 12", "& 0x3FF", "& 0xFFF"
PARSE_TIMESTAMP_SHIFT == 22
PARSE_NODE_ID_SHIFT == 12
PARSE_NODE_ID_MASK == 1023
PARSE_SEQUENCE_MASK == 4095

\* The module imports "from datetime import datetime" and nothing else of
\* datetime: the global name timezone that parse reads is bound nowhere.
timezone_bound == FALSE

\* ------------------------------------------------------------------------
\* Bounds of the model
\* ------------------------------------------------------------------------

\* Spec: generate_id calls started, over all callers
MaxCalls == 3

\* Spec: the clock reads EPOCH - 1 .. EPOCH + MaxTick
MaxTick == 0

\* SpecBurst: the clock reads EPOCH .. EPOCH + MaxBurstTick
MaxBurstTick == 1

\* SpecEarly: the clock reads -2 .. MaxEarlyTick
MaxEarlyTick == 1

\* SpecHandler: the runs of the handlers
MaxRuns == 2

\* SpecContend: the calls left in the millisecond EPOCH before the sequence
\* wraps, as the specification starts
BurstLeft == 1

Generators == {"g1", "g2"}
Callers == {"c1", "c2"}

\* The node ids handed to the constructor of each generator
NodeIdInputs(g) ==
    IF g = "g1" THEN {-1, 0, MAX_NODE_ID} ELSE {MAX_NODE_ID, MAX_NODE_ID + 1}

None == "None"

\* A caller that has no outcome yet; parse not called yet
NoOutcome == [kind |-> "none"]

\* A caller that is not inside the critical section
NoEntry == [inside |-> FALSE]

\* No handler has run yet
NoHandler == [pc |-> "idle", runs |-> 0]

\* The timestamp-deltas, node ids and sequences of the identifiers given to
\* parse: 0, 1, 2^22, 2^41 - 1; 0, 1, 512, 1023; 0, 1, 2048, 4095
ParseDeltas == {W(0), W(1), W(Base), << 0, 2 ^ 19 - 1, Base - 1 >>}
ParseNodeIds == {0, 1, 512, MAX_NODE_ID}
ParseSequences == {0, 1, 2048, SEQUENCE_MASK}

\* 64-bit integers given to parse that generate_id need not have returned:
\* 2^63 and 2^64 - 1
ParseRawInputs == {<< 2 ^ 19, 0, 0 >>, << 2 ^ 20 - 1, Base - 1, Base - 1 >>}

\* ------------------------------------------------------------------------
\* Pure parts of SnowflakeIdGenerator
\* ------------------------------------------------------------------------

\* Mutant of NodeIdRejected: the upper comparison is >= (1023 is rejected).
NodeIdRejectedFrom1023(n) == n < 0 \/ n >= MAX_NODE_ID

\* __init__: "if node_id < 0 or node_id > 1023: raise ValueError"
NodeIdRejected(n) == n < 0 \/ n > MAX_NODE_ID

\* Mutant of ClockMovedBackwards: the regression is never detected.
ClockNeverMovedBackwards(timestamp, last) == FALSE

\* Mutant of ClockMovedBackwards: the comparison is <=.
ClockMovedBackwardsOrStill(timestamp, last) == IntLeq(timestamp, last)

\* generate_id: "if timestamp < self.last_timestamp: raise"
ClockMovedBackwards(timestamp, last) == IntLess(timestamp, last)

\* Mutant of NextSequence: the incremented sequence is not masked.
NextSequenceNoMask(seq) == seq + 1

\* Mutant of NextSequence: the sequence is not incremented.
NextSequenceStuck(seq) == BitAnd(seq, SEQUENCE_MASK)

\* generate_id: "(self.sequence + 1) & 4095"
NextSequence(seq) == BitAnd(seq + 1, SEQUENCE_MASK)

\* Mutant of KeepWaiting: the loop is left at a reading less than its argument.
KeepWaitingWhileEqual(timestamp, last) == timestamp = last

\* Mutant of KeepWaiting: the loop is left at a reading equal to its argument.
KeepWaitingWhileEarlier(timestamp, last) == IntLess(timestamp, last)

\* _wait_next_millis: "while timestamp <= last_timestamp"
KeepWaiting(timestamp, last) == IntLeq(timestamp, last)

\* Mutant of ComposeId: the sequence is left out of the identifier.
ComposeIdNoSequence(timestamp, node, seq) ==
    IntOr(IntShl(IntSub(timestamp, EPOCH), TIMESTAMP_SHIFT),
          IntShl(W(node), NODE_ID_SHIFT))

\* Mutant of ComposeId: the node id is left out of the identifier.
ComposeIdNoNodeId(timestamp, node, seq) ==
    IntOr(IntShl(IntSub(timestamp, EPOCH), TIMESTAMP_SHIFT), W(seq))

\* generate_id: the value returned,
\* ((timestamp - EPOCH) << 22) | (node_id << 12) | sequence
ComposeId(timestamp, node, seq) ==
    IntOr(IntOr(IntShl(IntSub(timestamp, EPOCH), TIMESTAMP_SHIFT),
                IntShl(W(node), NODE_ID_SHIFT)),
          W(seq))

\* parse: timestamp = (snowflake_id >> 22) + EPOCH
ParseTimestamp(id) == IntAdd(IntShr(id, PARSE_TIMESTAMP_SHIFT), EPOCH)

\* parse: node_id = (snowflake_id >> 12) & 0x3FF
ParseNodeId(id) == IntAnd(IntShr(id, PARSE_NODE_ID_SHIFT), W(PARSE_NODE_ID_MASK))

\* parse: sequence = snowflake_id & 0xFFF
ParseSequence(id) == IntAnd(id, W(PARSE_SEQUENCE_MASK))

NameError == [kind |-> "NameError"]

\* parse: the three fields are computed, then the SnowflakeInfo is built with
\* generated_at = datetime.fromtimestamp(timestamp / 1000, tz=timezone.utc);
\* reading the unbound global timezone raises NameError.
parse(id) ==
    IF timezone_bound
    THEN [kind |-> "SnowflakeInfo",
          id |-> id,
          timestamp |-> ParseTimestamp(id),
          node_id |-> ParseNodeId(id),
          sequence |-> ParseSequence(id),
          generated_at |-> ParseTimestamp(id)]
    ELSE NameError

\* ------------------------------------------------------------------------
\* State
\* ------------------------------------------------------------------------

VARIABLES
    status,          \* generator -> "none" (not constructed), "live", "failed" (__init__ raised)
    requested,       \* generator -> the node_id argument given to __init__
    node_id,         \* generator -> self.node_id
    sequence,        \* generator -> self.sequence
    last_timestamp,  \* generator -> self.last_timestamp
    lock,            \* generator -> the caller holding self._lock, or None
    pc,              \* caller -> where it is in generate_id
    target,          \* caller -> the generator it called
    timestamp,       \* caller -> the local timestamp of generate_id / _wait_next_millis
    wait_last,       \* caller -> the argument last_timestamp of _wait_next_millis
    entry,           \* caller -> what it found when it entered the critical section
    result,          \* caller -> the outcome of its latest generate_id call
    clock,           \* what int(time.time() * 1000) returns now
    clock_monotonic, \* the clock has never moved backwards
    run,             \* generator -> calls so far in the current burst within one millisecond
    max_id,          \* generator -> the greatest identifier returned so far
    log,             \* the outcomes of the calls finished since the initial state, in order
    logging,         \* whether log is kept (and the number of calls bounded)
    parse_in,        \* the argument of parse
    parse_out,       \* what parse returned or raised
    handler,         \* the run of a create/register handler: its position, input and Result
    repository,      \* the users passed to repository.create, in order
    email_service    \* the addresses passed to send_welcome_email, in order

vars == << status, requested, node_id, sequence, last_timestamp, lock,
           pc, target, timestamp, wait_last, entry, result,
           clock, clock_monotonic, run, max_id, log, logging,
           parse_in, parse_out, handler, repository, email_service >>

gen_vars == << status, requested, node_id, sequence, last_timestamp, lock >>
caller_vars == << pc, target, timestamp, wait_last, entry, result >>
clock_vars == << clock, clock_monotonic >>
parse_vars == << parse_in, parse_out >>
handler_vars == << handler, repository, email_service >>

\* _current_timestamp: int(time.time() * 1000), the clock as it stands
current_timestamp == clock

\* The readings of the clock: EPOCH - 1 .. EPOCH + MaxTick
Readings == {IntAdd(EPOCH, W(k)) : k \in -1 .. MaxTick}

\* The readings of a clock set near 1970: -2 .. MaxEarlyTick
EarlyReadings == {W(k) : k \in -2 .. MaxEarlyTick}

\* The readings of the clock in a burst: EPOCH .. EPOCH + MaxBurstTick
BurstReadings == {IntAdd(EPOCH, W(k)) : k \in 0 .. MaxBurstTick}

InFlight == {c \in Callers : pc[c] # "idle"}

\* The outcome of a call, as the caller and the log keep it.
Outcome(c, kind, id, ts, seq) ==
    [kind |-> kind, id |-> id, gen |-> target[c], caller |-> c,
     read |-> entry[c].read,
     before_last |-> entry[c].last, before_seq |-> entry[c].seq,
     after_last |-> ts, after_seq |-> seq,
     run |-> run[target[c]]]

Logged(o) == IF logging THEN Append(log, o) ELSE log

\* ------------------------------------------------------------------------
\* Initial states
\* ------------------------------------------------------------------------

InitCommon ==
    /\ status = [g \in Generators |-> "none"]
    /\ requested = [g \in Generators |-> None]
    /\ node_id = [g \in Generators |-> None]
    /\ sequence = [g \in Generators |-> None]
    /\ last_timestamp = [g \in Generators |-> None]
    /\ lock = [g \in Generators |-> None]
    /\ pc = [c \in Callers |-> "idle"]
    /\ target = [c \in Callers |-> None]
    /\ timestamp = [c \in Callers |-> None]
    /\ wait_last = [c \in Callers |-> None]
    /\ entry = [c \in Callers |-> NoEntry]
    /\ result = [c \in Callers |-> NoOutcome]
    /\ clock_monotonic = TRUE
    /\ run = [g \in Generators |-> 0]
    /\ max_id = [g \in Generators |-> None]
    /\ log = << >>
    /\ parse_out = NoOutcome
    /\ handler = NoHandler
    /\ repository = << >>
    /\ email_service = << >>

Init ==
    /\ InitCommon
    /\ clock \in Readings
    /\ logging = TRUE
    /\ parse_in = None

InitBurst ==
    /\ InitCommon
    /\ clock \in BurstReadings
    /\ logging = FALSE
    /\ parse_in = None

\* parse is given an identifier built from a delta, a node id and a sequence,
\* or some other 64-bit integer.
InitParse ==
    /\ InitCommon
    /\ clock = EPOCH
    /\ logging = FALSE
    /\ parse_in \in {ComposeId(IntAdd(EPOCH, d), n, q) :
                        d \in ParseDeltas, n \in ParseNodeIds, q \in ParseSequences}
                     \cup ParseRawInputs

\* The state after caller c1 has made 4096 - BurstLeft calls of generator g1,
\* constructed with node id 1023, while the clock read EPOCH: a state
\* SpecBurst reaches.  The calls from here on are logged.
InitContend ==
    LET seq0 == SEQUENCE_MASK - BurstLeft
        id0 == ComposeId(EPOCH, MAX_NODE_ID, seq0)
    IN
    /\ status = [g \in Generators |-> IF g = "g1" THEN "live" ELSE "none"]
    /\ requested = [g \in Generators |-> IF g = "g1" THEN MAX_NODE_ID ELSE None]
    /\ node_id = [g \in Generators |-> IF g = "g1" THEN MAX_NODE_ID ELSE None]
    /\ sequence = [g \in Generators |-> IF g = "g1" THEN seq0 ELSE None]
    /\ last_timestamp = [g \in Generators |-> IF g = "g1" THEN EPOCH ELSE None]
    /\ lock = [g \in Generators |-> None]
    /\ pc = [c \in Callers |-> "idle"]
    /\ target = [c \in Callers |-> None]
    /\ timestamp = [c \in Callers |-> None]
    /\ wait_last = [c \in Callers |-> None]
    /\ entry = [c \in Callers |-> NoEntry]
    /\ result = [c \in Callers |->
                    IF c = "c1"
                    THEN [kind |-> "id", id |-> id0, gen |-> "g1", caller |-> "c1",
                          read |-> EPOCH,
                          before_last |-> EPOCH, before_seq |-> seq0 - 1,
                          after_last |-> EPOCH, after_seq |-> seq0,
                          run |-> seq0 + 1]
                    ELSE NoOutcome]
    /\ clock = EPOCH
    /\ clock_monotonic = TRUE
    /\ run = [g \in Generators |-> IF g = "g1" THEN seq0 + 1 ELSE 0]
    /\ max_id = [g \in Generators |-> IF g = "g1" THEN id0 ELSE None]
    /\ log = << >>
    /\ logging = TRUE
    /\ parse_in = None
    /\ parse_out = NoOutcome
    /\ handler = NoHandler
    /\ repository = << >>
    /\ email_service = << >>

\* ------------------------------------------------------------------------
\* SnowflakeIdGenerator.__init__
\* ------------------------------------------------------------------------

\* Mutant of Construct: last_timestamp starts at 0.
ConstructLastZero(g, n) ==
    /\ status[g] = "none"
    /\ requested' = [requested EXCEPT ![g] = n]
    /\ IF NodeIdRejected(n)
       THEN /\ status' = [status EXCEPT ![g] = "failed"]
            /\ UNCHANGED << node_id, sequence, last_timestamp, lock >>
       ELSE /\ status' = [status EXCEPT ![g] = "live"]
            /\ node_id' = [node_id EXCEPT ![g] = n]
            /\ sequence' = [sequence EXCEPT ![g] = 0]
            /\ last_timestamp' = [last_timestamp EXCEPT ![g] = W(0)]
            /\ lock' = [lock EXCEPT ![g] = None]
    /\ UNCHANGED << caller_vars, clock_vars, run, max_id, log, logging, parse_vars,
                    handler_vars >>

Construct(g, n) ==
    /\ status[g] = "none"
    /\ requested' = [requested EXCEPT ![g] = n]
    /\ IF NodeIdRejected(n)
       THEN /\ status' = [status EXCEPT ![g] = "failed"]
            /\ UNCHANGED << node_id, sequence, last_timestamp, lock >>
       ELSE /\ status' = [status EXCEPT ![g] = "live"]
            /\ node_id' = [node_id EXCEPT ![g] = n]
            /\ sequence' = [sequence EXCEPT ![g] = 0]
            /\ last_timestamp' = [last_timestamp EXCEPT ![g] = W(NO_TIMESTAMP)]
            /\ lock' = [lock EXCEPT ![g] = None]
    /\ UNCHANGED << caller_vars, clock_vars, run, max_id, log, logging, parse_vars,
                    handler_vars >>

\* ------------------------------------------------------------------------
\* SnowflakeIdGenerator.generate_id
\* ------------------------------------------------------------------------

\* generate_id is called by c on a live generator and reaches "with self._lock".
Invoke(c, g) ==
    /\ pc[c] = "idle"
    /\ status[g] = "live"
    /\ logging => Len(log) + Cardinality(InFlight) < MaxCalls
    /\ pc' = [pc EXCEPT ![c] = "acquire"]
    /\ target' = [target EXCEPT ![c] = g]
    /\ result' = [result EXCEPT ![c] = NoOutcome]
    /\ UNCHANGED << gen_vars, timestamp, wait_last, entry, clock_vars, run, max_id,
                    log, logging, parse_vars >>

\* A caller that is no handler calls generate_id.
Call(c, g) ==
    /\ Invoke(c, g)
    /\ UNCHANGED handler_vars

\* Mutant of LockFree: generate_id takes no lock.
LockAlwaysFree(g, c) == TRUE

\* self._lock can be taken by c
LockFree(g, c) == lock[g] = None

\* "with self._lock:" is entered and "timestamp = self._current_timestamp()" runs.
Enter(c) ==
    LET g == target[c] IN
    /\ pc[c] = "acquire"
    /\ LockFree(g, c)
    /\ lock' = [lock EXCEPT ![g] = c]
    /\ timestamp' = [timestamp EXCEPT ![c] = current_timestamp]
    /\ entry' = [entry EXCEPT ![c] = [read |-> current_timestamp,
                                      last |-> last_timestamp[g],
                                      seq |-> sequence[g]]]
    /\ pc' = [pc EXCEPT ![c] = "check"]
    /\ UNCHANGED << status, requested, node_id, sequence, last_timestamp,
                    target, wait_last, result, clock_vars, run, max_id,
                    log, logging, parse_vars,
                    handler_vars >>

\* Mutant of Released: the lock stays taken when the with block is left.
ReleasedNever(g, c) == lock

\* The lock is released as the with block is left (by return or by raise).
Released(g, c) == [lock EXCEPT ![g] = IF lock[g] = c THEN None ELSE lock[g]]

\* The comparisons of timestamp with self.last_timestamp: the raise, the
\* increment of the sequence (and the call of _wait_next_millis when it wraps
\* to 0), or the reset of the sequence.
Check(c) ==
    LET g == target[c]
        ts == timestamp[c]
    IN
    /\ pc[c] = "check"
    /\ IF ClockMovedBackwards(ts, last_timestamp[g])
       THEN \* raise Exception("Clock moved backwards")
            LET o == Outcome(c, "error", None, last_timestamp[g], sequence[g]) IN
            /\ result' = [result EXCEPT ![c] = o]
            /\ log' = Logged(o)
            /\ lock' = Released(g, c)
            /\ pc' = [pc EXCEPT ![c] = "idle"]
            /\ target' = [target EXCEPT ![c] = None]
            /\ timestamp' = [timestamp EXCEPT ![c] = None]
            /\ entry' = [entry EXCEPT ![c] = NoEntry]
            /\ run' = [run EXCEPT ![g] = 0]
            /\ UNCHANGED << sequence, wait_last >>
       ELSE IF ts = last_timestamp[g]
       THEN /\ sequence' = [sequence EXCEPT ![g] = NextSequence(sequence[g])]
            /\ IF sequence'[g] = 0
               THEN /\ pc' = [pc EXCEPT ![c] = "wait"]
                    /\ wait_last' = [wait_last EXCEPT ![c] = last_timestamp[g]]
               ELSE /\ pc' = [pc EXCEPT ![c] = "assign"]
                    /\ UNCHANGED wait_last
            /\ run' = [run EXCEPT ![g] = IF run[g] > 0 THEN run[g] + 1 ELSE 0]
            /\ UNCHANGED << result, log, lock, target, timestamp, entry >>
       ELSE /\ sequence' = [sequence EXCEPT ![g] = 0]
            /\ pc' = [pc EXCEPT ![c] = "assign"]
            /\ run' = [run EXCEPT ![g] = 1]
            /\ UNCHANGED << result, log, lock, target, timestamp, entry, wait_last >>
    /\ UNCHANGED << status, requested, node_id, last_timestamp, clock_vars, max_id,
                    logging, parse_vars,
                    handler_vars >>

\* _wait_next_millis: one reading of the clock (the first, or one turn of the
\* loop); the loop is left with a reading greater than its argument.
WaitNextMillis(c) ==
    /\ pc[c] = "wait"
    /\ timestamp' = [timestamp EXCEPT ![c] = current_timestamp]
    /\ IF KeepWaiting(current_timestamp, wait_last[c])
       THEN UNCHANGED << pc, wait_last >>
       ELSE /\ pc' = [pc EXCEPT ![c] = "assign"]
            /\ wait_last' = [wait_last EXCEPT ![c] = None]
    /\ UNCHANGED << gen_vars, target, entry, result, clock_vars, run, max_id,
                    log, logging, parse_vars,
                    handler_vars >>

\* id1 if it is the greater of the two (id0 may be None)
Greatest(id0, id1) == IF id0 = None \/ IntLess(id0, id1) THEN id1 ELSE id0

\* "self.last_timestamp = timestamp", then the identifier is composed and
\* returned, and the lock released.
Assign(c) ==
    LET g == target[c]
        id == ComposeId(timestamp[c], node_id[g], sequence[g])
        o == Outcome(c, "id", id, timestamp[c], sequence[g])
    IN
    /\ pc[c] = "assign"
    /\ last_timestamp' = [last_timestamp EXCEPT ![g] = timestamp[c]]
    /\ result' = [result EXCEPT ![c] = o]
    /\ log' = Logged(o)
    /\ max_id' = [max_id EXCEPT ![g] = Greatest(max_id[g], id)]
    /\ run' = [run EXCEPT ![g] = IF timestamp[c] = entry[c].read THEN run[g] ELSE 0]
    /\ lock' = Released(g, c)
    /\ pc' = [pc EXCEPT ![c] = "idle"]
    /\ target' = [target EXCEPT ![c] = None]
    /\ timestamp' = [timestamp EXCEPT ![c] = None]
    /\ entry' = [entry EXCEPT ![c] = NoEntry]
    /\ UNCHANGED << status, requested, node_id, sequence, wait_last, clock_vars,
                    logging, parse_vars,
                    handler_vars >>

\* ------------------------------------------------------------------------
\* The clock
\* ------------------------------------------------------------------------

\* time.time() moves, forwards or backwards, to another reading of S.
Tick(S) ==
    /\ \E t \in S \ {clock} :
          /\ clock' = t
          /\ clock_monotonic' = (clock_monotonic /\ IntLess(clock, t))
    /\ UNCHANGED << gen_vars, caller_vars, run, max_id, log, logging, parse_vars,
                    handler_vars >>

\* ------------------------------------------------------------------------
\* SnowflakeIdGenerator.parse
\* ------------------------------------------------------------------------

Parse ==
    /\ parse_in # None
    /\ parse_out = NoOutcome
    /\ parse_out' = parse(parse_in)
    /\ UNCHANGED << gen_vars, caller_vars, clock_vars, run, max_id, log, logging,
                    parse_in, handler_vars >>

\* ------------------------------------------------------------------------
\* UserCCreate.handler and UserCRegisterWithSnowflake.handler
\* ------------------------------------------------------------------------

\* A string is the sequence of its characters; NoText stands for None where a
\* string is expected (no string is equal to it, characters being of length 1).
NoText == << None >>

Whitespace == {" ", "\n"}

\* Of the characters clean removes, those the inputs contain
ControlChars == {"\n"}

RECURSIVE lstrip(_)
lstrip(text) ==
    IF text # << >> /\ Head(text) \in Whitespace THEN lstrip(Tail(text)) ELSE text

RECURSIVE rstrip(_)
rstrip(text) ==
    IF text # << >> /\ text[Len(text)] \in Whitespace
    THEN rstrip(SubSeq(text, 1, Len(text) - 1))
    ELSE text

\* str.strip
strip(text) == rstrip(lstrip(text))

\* str.lower
lower(text) == [i \in DOMAIN text |-> IF text[i] = "A" THEN "a" ELSE text[i]]

\* "if text" on a string or None
Truthy(text) == text # NoText /\ text # << >>

\* clean: "" for an empty text, else the replace calls and the strip
clean(text) ==
    IF ~Truthy(text)
    THEN << >>
    ELSE strip(SelectSeq(text, LAMBDA ch : ch \notin ControlChars))

MIN_PASSWORD_LENGTH == 8

Handlers == {"UserCCreate", "UserCRegisterWithSnowflake"}

\* The email and password fields of the input DTOs
Password(n) == [i \in 1 .. n |-> "p"]
Emails == {NoText, << " ", "\n" >>, << "A" >>, << "\n", "a", " " >>, << "b" >>}
Passwords ==
    {NoText, Password(MIN_PASSWORD_LENGTH - 1), Password(MIN_PASSWORD_LENGTH),
     << " " >> \o Password(MIN_PASSWORD_LENGTH - 1)}

\* prefix = "USER_CREATE" / "USER_REGISTER"
Prefix(k) == IF k = "UserCCreate" THEN "USER_CREATE" ELSE "USER_REGISTER"

\* The handlers run in caller c1, with generator g1 as self._id_generator
HandlerCaller == "c1"
HandlerGenerator == "g1"

\* The handler returns a Result.
Return(state, code) ==
    handler' = [handler EXCEPT !.pc = "done", !.state = state,
                               !.code = Prefix(handler.kind) \o ":" \o code]

\* handler(input_dto) is called.
HandlerStart(k, email, password) ==
    /\ handler.pc \in {"idle", "done"}
    /\ handler.runs < MaxRuns
    /\ status[HandlerGenerator] = "live"
    /\ handler' = [pc |-> "clean", kind |-> k, email |-> email,
                   password |-> password, state |-> "none", code |-> "",
                   called |-> FALSE,
                   before |-> [sequence |-> sequence[HandlerGenerator],
                               last_timestamp |-> last_timestamp[HandlerGenerator],
                               created |-> Len(repository),
                               welcomed |-> Len(email_service)],
                   runs |-> handler.runs + 1]
    /\ UNCHANGED << gen_vars, caller_vars, clock_vars, run, max_id, log, logging,
                    parse_vars, repository, email_service >>

\* The Clean and Validation regions.
HandlerValidate ==
    LET email == IF Truthy(handler.email) THEN lower(clean(handler.email)) ELSE << >>
        password == IF handler.kind = "UserCCreate"
                    THEN IF Truthy(handler.password)
                         THEN strip(handler.password)
                         ELSE << >>
                    ELSE handler.password
    IN
    /\ handler.pc = "clean"
    /\ IF ~Truthy(email)
       THEN Return("INVALID", "EMAIL_REQUIRED")
       ELSE IF handler.kind = "UserCCreate" /\ Len(password) < MIN_PASSWORD_LENGTH
       THEN Return("INVALID", "PASSWORD_TOO_SHORT")
       ELSE handler' = [handler EXCEPT !.pc = "rule", !.email = email,
                                       !.password = password]
    /\ UNCHANGED << gen_vars, caller_vars, clock_vars, run, max_id, log, logging,
                    parse_vars, repository, email_service >>

\* The Business Rules region: exists_by_email / get_by_email.
HandlerRule ==
    /\ handler.pc = "rule"
    /\ IF \E i \in 1 .. Len(repository) : repository[i].email = handler.email
       THEN Return("UNSUCCESS", "EMAIL_EXISTS")
       ELSE handler' = [handler EXCEPT !.pc = "process"]
    /\ UNCHANGED << gen_vars, caller_vars, clock_vars, run, max_id, log, logging,
                    parse_vars, repository, email_service >>

\* "user_id = self._id_generator.generate_id()": the call is made.
HandlerGenerate ==
    /\ handler.pc = "process"
    /\ Invoke(HandlerCaller, HandlerGenerator)
    /\ handler' = [handler EXCEPT !.pc = "generate_id", !.called = TRUE]
    /\ UNCHANGED << repository, email_service >>

\* Mutant of Raised: the except clause is never entered.
RaisedNever(o) == FALSE

\* generate_id raised, which "except Exception" catches
Raised(o) == o.kind = "error"

\* generate_id has returned or raised: the except clause, or the rest of the
\* Process region (the User is built, created, welcomed) and the SUCCESS
\* Result.  _hash_password raises AttributeError on a password that is None.
HandlerFinish ==
    LET o == result[HandlerCaller] IN
    /\ handler.pc = "generate_id"
    /\ pc[HandlerCaller] = "idle"
    /\ IF Raised(o) \/ handler.password = NoText
       THEN /\ Return("ERROR", "SYSTEM_ERROR")
            /\ UNCHANGED << repository, email_service >>
       ELSE /\ repository' = Append(repository,
                                    [user_id |-> o.id, email |-> handler.email])
            /\ email_service' = Append(email_service, handler.email)
            /\ Return("SUCCESS", "SUCCESS")
    /\ UNCHANGED << gen_vars, caller_vars, clock_vars, run, max_id, log, logging,
                    parse_vars >>

\* ------------------------------------------------------------------------
\* Specifications
\* ------------------------------------------------------------------------

\* Two generators and two callers, MaxCalls calls in all.  The sequence
\* cannot wrap within so few calls, so _wait_next_millis is not reached here;
\* SpecBurst reaches it.
Next ==
    \/ \E g \in Generators : \E n \in NodeIdInputs(g) : Construct(g, n)
    \/ \E c \in Callers, g \in Generators : Call(c, g)
    \/ \E c \in Callers : Enter(c)
    \/ \E c \in Callers : Check(c)
    \/ \E c \in Callers : Assign(c)
    \/ Tick(Readings)

Spec == Init /\ [][Next]_vars

\* One generator and one caller, any number of calls: bursts of calls within
\* one millisecond, up to the wrap of the sequence and the wait that follows.
NextBurst ==
    \/ Construct("g1", MAX_NODE_ID)
    \/ Call("c1", "g1")
    \/ Enter("c1")
    \/ Check("c1")
    \/ WaitNextMillis("c1")
    \/ Assign("c1")
    \/ Tick(BurstReadings)

SpecBurst == InitBurst /\ [][NextBurst]_vars

\* Two callers of one generator whose sequence is about to wrap: MaxCalls
\* calls, among them the call that wraps the sequence and waits.
NextContend ==
    \/ \E c \in Callers : Call(c, "g1")
    \/ \E c \in Callers : Enter(c)
    \/ \E c \in Callers : Check(c)
    \/ \E c \in Callers : WaitNextMillis(c)
    \/ \E c \in Callers : Assign(c)
    \/ Tick(BurstReadings)

SpecContend == InitContend /\ [][NextContend]_vars

\* A caller inside generate_id goes on running (each of its steps is taken if
\* it stays possible), and a caller blocked on the lock gets it if the lock is
\* free again and again.
FairLive ==
    \A c \in Callers :
        /\ SF_vars(Enter(c))
        /\ WF_vars(Check(c))
        /\ WF_vars(WaitNextMillis(c))
        /\ WF_vars(Assign(c))

SpecLive == SpecContend /\ FairLive

\* The two handlers, run one after the other MaxRuns times on one generator.
InitHandler ==
    /\ InitCommon
    /\ clock \in Readings
    /\ logging = FALSE
    /\ parse_in = None

NextHandler ==
    \/ Construct(HandlerGenerator, MAX_NODE_ID)
    \/ \E k \in Handlers, email \in Emails, password \in Passwords :
          HandlerStart(k, email, password)
    \/ HandlerValidate
    \/ HandlerRule
    \/ HandlerGenerate
    \/ Enter(HandlerCaller)
    \/ Check(HandlerCaller)
    \/ Assign(HandlerCaller)
    \/ HandlerFinish
    \/ Tick(Readings)

SpecHandler == InitHandler /\ [][NextHandler]_vars

\* Two callers of one generator under a clock set near 1970.
InitEarly ==
    /\ InitCommon
    /\ clock \in EarlyReadings
    /\ logging = TRUE
    /\ parse_in = None

NextEarly ==
    \/ \E n \in {0, MAX_NODE_ID} : Construct("g1", n)
    \/ \E c \in Callers : Call(c, "g1")
    \/ \E c \in Callers : Enter(c)
    \/ \E c \in Callers : Check(c)
    \/ \E c \in Callers : Assign(c)
    \/ Tick(EarlyReadings)

SpecEarly == InitEarly /\ [][NextEarly]_vars

\* parse alone, on identifiers built from their three fields.
NextParse == Parse

SpecParse == InitParse /\ [][NextParse]_vars

\* ------------------------------------------------------------------------
\* Properties
\* ------------------------------------------------------------------------

Returned(c) == result[c].kind = "id"
Failed(c) == result[c].kind = "error"

\* The indices of the log entries that are identifiers
Ids == {i \in 1 .. Len(log) : log[i].kind = "id"}

\* C1: with a clock that never moves backwards, every identifier a generator
\* returns is greater than every identifier it returned before.
C1_StrictlyIncreasing ==
    [][\A c \in Callers :
          (pc[c] = "assign" /\ pc'[c] = "idle" /\ clock_monotonic
             /\ max_id[target[c]] # None)
          => IntLess(max_id[target[c]], result'[c].id)]_vars

\* C1 witness: under a clock that never moved backwards, an identifier was
\* returned after the sequence wrapped, the 4096 identifiers of the previous
\* millisecond having been returned before it.
C1_Witness ==
    \E c \in Callers :
        /\ Returned(c)
        /\ clock_monotonic
        /\ result[c].before_seq = 4095
        /\ result[c].after_seq = 0
        /\ max_id[result[c].gen] = result[c].id

\* C2: the identifiers returned by one generator to any callers are pairwise
\* distinct, and no two of them carry the same (timestamp, sequence) pair.
C2_PairwiseDistinct ==
    \A i, j \in Ids :
        (i < j /\ log[i].gen = log[j].gen)
        => /\ log[i].id # log[j].id
           /\ << ParseTimestamp(log[i].id), ParseSequence(log[i].id) >>
                # << ParseTimestamp(log[j].id), ParseSequence(log[j].id) >>

\* C2 witness: two callers have got identifiers of one generator within the
\* same millisecond, the second entering right after the first.
C2_Witness ==
    \E i, j \in Ids :
        /\ i < j
        /\ log[i].gen = log[j].gen
        /\ log[i].caller # log[j].caller
        /\ log[i].after_last = log[j].after_last
        /\ log[j].before_seq = log[i].after_seq
        /\ log[j].read = log[i].read

\* The index of the next call of the same generator after call i in the log
NextOfGen(i) ==
    {j \in i + 1 .. Len(log) :
        /\ log[j].gen = log[i].gen
        /\ \A k \in i + 1 .. j - 1 : log[k].gen # log[i].gen}

\* C3: a call whose clock reading is earlier than last_timestamp fails and
\* leaves last_timestamp and sequence as they were; the next call of the
\* generator succeeds if its reading is not earlier than that last_timestamp.
C3_RegressionLeavesState ==
    \A i \in 1 .. Len(log) :
        IntLess(log[i].read, log[i].before_last)
        => /\ log[i].kind = "error"
           /\ log[i].after_last = log[i].before_last
           /\ log[i].after_seq = log[i].before_seq
           /\ \A j \in NextOfGen(i) :
                 /\ log[j].before_last = log[i].before_last
                 /\ log[j].before_seq = log[i].before_seq
                 /\ IntLeq(log[i].before_last, log[j].read) => log[j].kind = "id"

\* C3 witness: a call failed on a clock reading earlier than last_timestamp
\* and the next call of the same generator returned an identifier.
C3_Witness ==
    \E i \in 1 .. Len(log) :
        /\ log[i].kind = "error"
        /\ \E j \in NextOfGen(i) : log[j].kind = "id"

\* C4: two generators with different node ids never return the same
\* identifier.
C4_FleetUnique ==
    \A i, j \in Ids :
        (log[i].gen # log[j].gen /\ node_id[log[i].gen] # node_id[log[j].gen])
        => log[i].id # log[j].id

\* C4 witness: two generators with different node ids have returned
\* identifiers of the same millisecond and the same sequence.
C4_Witness ==
    \E i, j \in Ids :
        /\ log[i].gen # log[j].gen
        /\ node_id[log[i].gen] # node_id[log[j].gen]
        /\ log[i].after_last = log[j].after_last
        /\ log[i].after_seq = log[j].after_seq

\* C5: the k-th call (k <= 4096) of a burst of calls that all read one
\* millisecond, the first of them reading a millisecond greater than
\* last_timestamp, returns an identifier whose sequence field is k - 1 and
\* whose timestamp field is that millisecond.
C5_BurstSequences ==
    \A c \in Callers :
        (Returned(c) /\ result[c].run \in 1 .. 4096)
        => /\ ParseSequence(result[c].id) = W(result[c].run - 1)
           /\ ParseTimestamp(result[c].id) = result[c].read

\* C5 witness: the 4096th call of a burst has returned.
C5_Witness ==
    \E c \in Callers : Returned(c) /\ result[c].run = 4096

\* C6: the 4097th call of a burst leaves the wait only when the clock reads
\* a millisecond greater than that of the burst, and the identifier it
\* returns has a greater timestamp field and the sequence field 0.
C6_WrapWaits ==
    /\ [][\A c \in Callers :
             (pc[c] = "wait" /\ pc'[c] # "wait")
             => IntLess(last_timestamp[target[c]], clock)]_vars
    /\ [](\A c \in Callers :
             (Returned(c) /\ result[c].run = 4097)
             => /\ IntLess(result[c].read, ParseTimestamp(result[c].id))
                /\ ParseSequence(result[c].id) = W(0)
                /\ result[c].before_seq = 4095)

\* C6 witness: the 4097th call of a burst has returned an identifier.
C6_Witness ==
    \E c \in Callers : Returned(c) /\ result[c].run = 4097

\* C7: a call fails exactly when the clock reading it took at entry is
\* earlier than last_timestamp; every other call that ends returns an
\* identifier.
C7_OnlyRegressionFails ==
    \A c \in Callers :
        /\ result[c].kind \in {"none", "id", "error"}
        /\ result[c].kind # "none"
           => (Failed(c) <=> IntLess(result[c].read, result[c].before_last))

\* C7 witness: a call has failed, its reading earlier than last_timestamp.
C7_Witness ==
    \E c \in Callers : Failed(c) /\ IntLess(result[c].read, result[c].before_last)

\* C8: the constructor succeeds exactly for node ids 0 .. 1023; the new
\* generator has sequence 0 and last_timestamp -1.
C8_Construction ==
    [][\A g \in Generators :
          (status[g] = "none" /\ status'[g] # "none")
          => /\ status'[g] = "live" <=> requested'[g] \in 0 .. 1023
             /\ status'[g] = "failed" <=> requested'[g] \notin 0 .. 1023
             /\ status'[g] = "live"
                => /\ sequence'[g] = 0
                   /\ last_timestamp'[g] = W(-1)
                   /\ node_id'[g] = requested'[g]]_vars

\* C8 witness: one generator was constructed with node id 1023 and the
\* construction of another with 1024 failed.
C8_Witness ==
    /\ status["g1"] = "live" /\ requested["g1"] = 1023
    /\ status["g2"] = "failed" /\ requested["g2"] = 1024

\* C9: parse of every identifier a generator returns yields the node id the
\* generator was constructed with.
C9_ParseRecoversNodeId ==
    \A c \in Callers :
        Returned(c)
        => /\ parse(result[c].id).kind = "SnowflakeInfo"
           /\ parse(result[c].id).node_id = W(node_id[result[c].gen])

\* The small integer a three-limb integer of 0 .. 2^22 - 1 stands for
Small(x) == x[3]

\* C10: re-encoding the fields parse returns, as
\* ((timestamp - EPOCH) << 22) | (node_id << 12) | sequence, gives back the
\* identifier parse was given.
C10_RoundTrip ==
    parse_out.kind # "none"
    => /\ parse_out.kind = "SnowflakeInfo"
       /\ ComposeId(parse_out.timestamp, Small(parse_out.node_id),
                    Small(parse_out.sequence)) = parse_in

\* C11: parse fails on no 64-bit input: whatever it is given, it returns a
\* SnowflakeInfo and raises nothing.
C11_ParseTotal ==
    parse_out.kind \in {"none", "SnowflakeInfo"}

\* The bounds of a 64-bit unsigned integer and of a 41-bit delta
Zero == W(0)
TwoTo64 == << 2 ^ 20, 0, 0 >>
TwoTo41 == << 0, 2 ^ 19, 0 >>

\* C12: every identifier generate_id returns lies in 0 .. 2^64 - 1, its
\* timestamp-delta in 0 .. 2^41 - 1.
C12_SixtyFourBits ==
    \A c \in Callers :
        Returned(c)
        => /\ IntLeq(Zero, result[c].id)
           /\ IntLess(result[c].id, TwoTo64)
           /\ IntLeq(Zero, IntSub(result[c].after_last, EPOCH))
           /\ IntLess(IntSub(result[c].after_last, EPOCH), TwoTo41)

\* The callers between the clock read and the return or raise of generate_id
\* of generator g
Inside(g) == {c \in Callers : target[c] = g /\ pc[c] \in {"check", "wait", "assign"}}

\* The log entries of the generator of entry j that precede it
EarlierOfGen(j) == {i \in 1 .. j - 1 : log[i].gen = log[j].gen}

\* C13: at most one caller at a time is between its clock read and its
\* assignment of last_timestamp, it holds the lock, and nobody else touches
\* the state meanwhile; every call finds (last_timestamp, sequence) as the
\* call before it on that generator left them (as the constructor left them,
\* for the first), so the calls are as if run one after the other.
C13_Serialized ==
    /\ \A g \in Generators : Cardinality(Inside(g)) <= 1
    /\ \A c \in Callers :
          pc[c] \in {"check", "wait", "assign"}
          => /\ lock[target[c]] = c
             /\ last_timestamp[target[c]] = entry[c].last
             /\ pc[c] = "check" => sequence[target[c]] = entry[c].seq
    /\ \A j \in 1 .. Len(log) :
          IF EarlierOfGen(j) = {}
          THEN /\ log[j].before_last = W(-1)
               /\ log[j].before_seq = 0
          ELSE LET i == CHOOSE k \in EarlierOfGen(j) :
                            \A m \in EarlierOfGen(j) : m <= k
               IN  /\ log[j].before_last = log[i].after_last
                   /\ log[j].before_seq = log[i].after_seq

\* C13 witness: after a call of one caller has finished, another caller is
\* between its clock read and its assignment while the first waits for the
\* lock of the same generator.
C13_Witness ==
    \E c, d \in Callers :
        /\ c # d
        /\ pc[c] = "assign"
        /\ pc[d] = "acquire"
        /\ target[c] = target[d]
        /\ \E i \in 1 .. Len(log) : log[i].caller = d /\ log[i].gen = target[c]

\* C14: whatever the clock does, last_timestamp never decreases, and every
\* identifier a generator returns is greater than those it returned before,
\* its timestamp field not smaller than theirs.
C14_MonotonicPerNode ==
    [][/\ \A g \in Generators :
             (status[g] = "live" /\ status'[g] = "live")
             => IntLeq(last_timestamp[g], last_timestamp'[g])
       /\ \A c \in Callers :
             (pc[c] = "assign" /\ pc'[c] = "idle" /\ max_id[target[c]] # None)
             => /\ IntLess(max_id[target[c]], result'[c].id)
                /\ IntLeq(ParseTimestamp(max_id[target[c]]),
                          ParseTimestamp(result'[c].id))]_vars

\* C14 witness: the clock has moved backwards and a call has failed on it,
\* the generator having returned identifiers before.
C14_Witness ==
    \E c \in Callers :
        /\ Failed(c)
        /\ ~clock_monotonic
        /\ max_id[result[c].gen] # None
        /\ last_timestamp[result[c].gen] = result[c].before_last

\* C15: a caller in _wait_next_millis holds the lock and is alone inside
\* generate_id; while it waits no other caller of the generator reads the
\* clock or is given an identifier; and no two identifiers of a generator
\* have the sequence 0 in the same millisecond.
C15_WaitHoldsLock ==
    /\ [](\A c \in Callers :
             pc[c] = "wait"
             => lock[target[c]] = c /\ Inside(target[c]) = {c})
    /\ [][\A c \in Callers :
             pc[c] = "wait"
             => \A d \in Callers \ {c} :
                   target'[d] = target[c]
                   => /\ timestamp'[d] = timestamp[d]
                      /\ result'[d] # result[d] => result'[d] = NoOutcome]_vars
    /\ [](\A i, j \in Ids :
             (i < j /\ log[i].gen = log[j].gen /\ log[i].after_seq = 0
                /\ log[j].after_seq = 0)
             => log[i].after_last # log[j].after_last)

\* C15 witness: one caller waits for the next millisecond after the sequence
\* wrapped while the other has called generate_id and waits for the lock.
C15_Witness ==
    \E c, d \in Callers :
        /\ pc[c] = "wait"
        /\ pc[d] = "acquire"
        /\ target[d] = target[c]
        /\ sequence[target[c]] = 0

\* The clock ends up beyond the millisecond a waiting caller waits to pass.
ClockPassesWait ==
    \A c \in Callers : <>[](pc[c] = "wait" => IntLess(wait_last[c], clock))

\* C16: with a fairly granted lock and a clock that ends up beyond
\* last_timestamp, every generate_id call finishes: it returns an identifier
\* or fails with the clock-regression error.
C16_EveryCallFinishes ==
    ClockPassesWait
    => \A c \in Callers :
          (pc[c] # "idle") ~> (pc[c] = "idle" /\ (Returned(c) \/ Failed(c)))

\* C16 witness: a call failed with the clock-regression error and a call of
\* the other caller that finished after it returned an identifier.
C16_Witness ==
    \E i, j \in 1 .. Len(log) :
        /\ i < j
        /\ log[i].kind = "error"
        /\ log[j].kind = "id"
        /\ log[j].caller # log[i].caller
        /\ log[j].gen = log[i].gen

\* C17: the sequence of a constructed generator is in 0 .. 4095; a call that
\* read a millisecond greater than last_timestamp sets the sequence to 0, and
\* the identifier it returns has the sequence field 0.
C17_SequenceRange ==
    /\ [](\A g \in Generators :
             status[g] = "live" => sequence[g] \in 0 .. SEQUENCE_MASK)
    /\ [][\A c \in Callers :
             (pc[c] = "check" /\ pc'[c] # "check"
                /\ IntLess(last_timestamp[target[c]], timestamp[c]))
             => /\ sequence'[target[c]] = 0
                /\ pc'[c] = "assign"]_vars
    /\ [](\A c \in Callers :
             (Returned(c) /\ IntLess(result[c].before_last, result[c].read))
             => /\ result[c].after_seq = 0
                /\ ParseSequence(result[c].id) = W(0))

\* C17 witness: a call that found a sequence above 0 and read a millisecond
\* greater than last_timestamp has returned.
C17_Witness ==
    \E c \in Callers :
        /\ Returned(c)
        /\ result[c].before_seq \in 1 .. SEQUENCE_MASK - 1
        /\ IntLess(result[c].before_last, result[c].read)
        /\ sequence[result[c].gen] = 0

\* C18: the identifier a call returns is
\* ((last_timestamp - EPOCH) << 22) | (node_id << 12) | sequence on the state
\* the call leaves, parse of it yields that last_timestamp and that sequence,
\* and no step of generate_id changes the node id.
C18_IdOfStateAfter ==
    /\ [][\A c \in Callers :
             (pc[c] = "assign" /\ pc'[c] = "idle")
             => LET g == target[c]
                    id == result'[c].id
                IN
                /\ id = ComposeId(last_timestamp'[g], node_id'[g], sequence'[g])
                /\ parse(id).kind = "SnowflakeInfo"
                /\ parse(id).timestamp = last_timestamp'[g]
                /\ parse(id).sequence = W(sequence'[g])]_vars
    /\ [][\A g \in Generators :
             status[g] = "live" => node_id'[g] = node_id[g]]_vars

\* C19: a handler run in which generate_id failed returns a Result with
\* state ERROR, passes no user to repository.create and sends no welcome
\* email; a run that ends INVALID or UNSUCCESS has not called generate_id and
\* leaves the sequence and last_timestamp of the generator as it found them.
C19_HandlerReportsFailure ==
    handler.pc = "done"
    => /\ (handler.called /\ Failed(HandlerCaller))
          => /\ handler.state = "ERROR"
             /\ Len(repository) = handler.before.created
             /\ Len(email_service) = handler.before.welcomed
       /\ handler.state \in {"INVALID", "UNSUCCESS"}
          => /\ ~handler.called
             /\ sequence[HandlerGenerator] = handler.before.sequence
             /\ last_timestamp[HandlerGenerator] = handler.before.last_timestamp
       /\ handler.state \in {"INVALID", "UNSUCCESS", "ERROR", "SUCCESS"}

\* C19 witness: a handler run has ended in which generate_id failed with the
\* clock-regression error, after an earlier run had created a user.
C19_Witness ==
    /\ handler.pc = "done"
    /\ handler.called
    /\ Failed(HandlerCaller)
    /\ Len(repository) = 1

\* C20: the first generate_id call of a generator, if it read a millisecond
\* of 0 or more, found last_timestamp = -1, did not fail, and returned an
\* identifier with the sequence field 0.
C20_FirstCall ==
    \A j \in 1 .. Len(log) :
        (EarlierOfGen(j) = {} /\ IntLeq(Zero, log[j].read))
        => /\ log[j].before_last = W(NO_TIMESTAMP)
           /\ log[j].kind = "id"
           /\ log[j].after_seq = 0
           /\ ParseSequence(log[j].id) = Zero

\* C20 witness: the first call of a generator read the millisecond 0 and has
\* returned.
C20_Witness ==
    /\ Len(log) >= 1
    /\ log[1].read = Zero
    /\ log[1].kind = "id"

\* C21: while a caller is in _wait_next_millis, no step fails its call; a
\* clock reading less than or equal to the last_timestamp it was given keeps
\* it waiting; it leaves the wait only with a reading greater than that
\* last_timestamp; and until then the sequence is 0 and last_timestamp is the
\* one it was given.
C21_WaitIgnoresEarlyReadings ==
    [][\A c \in Callers :
          pc[c] = "wait"
          => LET g == target[c] IN
             /\ pc'[c] \in {"wait", "assign"}
             /\ result'[c] = NoOutcome
             /\ IntLeq(clock, wait_last[c]) => pc'[c] = "wait"
             /\ pc'[c] = "assign" => IntLess(wait_last[c], timestamp'[c])
             /\ sequence[g] = 0 /\ sequence'[g] = 0
             /\ last_timestamp[g] = wait_last[c]
             /\ last_timestamp'[g] = last_timestamp[g]]_vars

\* C21 witness: a waiting caller has read, in the loop, a millisecond less
\* than the last_timestamp it was given, the clock having moved backwards.
C21_Witness ==
    \E c \in Callers :
        /\ pc[c] = "wait"
        /\ ~clock_monotonic
        /\ IntLess(timestamp[c], wait_last[c])

====
